---- MODULE Spec2Model ----
(***************************************************************************)
(* WindowManager (Source/WindowManager.cpp): a thin wrapper that opens a   *)
(* GLFW window with an OpenGL context, polls input and swaps buffers.      *)
(*                                                                         *)
(* The state is the WindowManager's stored handle (Window), the global     *)
(* glewExperimental, the text written to standard error, and the state of  *)
(* the GLFW library the wrapper drives (glfw).  The library calls are      *)
(* modelled by what the GLFW reference documents for them; every call the  *)
(* wrapper makes is logged in trace, one entry per call, for the operation *)
(* that ran last.                                                          *)
(***************************************************************************)
EXTENDS Integers, Sequences, FiniteSets, TLC

VARIABLES Window,           \* WindowManager::Window, the stored handle
          glewExperimental, \* the GLEW global set at line 100
          glfw,             \* state of the GLFW library
          stderr,           \* diagnostics written with fprintf(stderr, ...)
          lastOp,           \* the WindowManager operation that ran last
          args,             \* the arguments of that operation
          ret,              \* its return value (0 for a void operation)
          trace             \* the library calls it made, in order

vars == <<Window, glewExperimental, glfw, stderr, lastOp, args, ret, trace>>

----------------------------------------------------------------------------
(* Bounds *)

MaxInit == 2      \* windows created plus diagnostics written, after which
                  \* Initialize is not called again
MaxQueue == 2     \* events waiting in the OS event queue

----------------------------------------------------------------------------
(* Values *)

NULL == 0                      \* nullptr
Indeterminate == -1            \* a handle that was never assigned
PrimaryMonitor == 1            \* what glfwGetPrimaryMonitor() returns
GLFW_PRESS == 1
GLFW_OPENGL_CORE_PROFILE == 204801
GLEW_OK == 0
GLEW_ERROR == 1

MsgInit == "Failed to initialize GLFW\n"
MsgWindow == "Failed to create a GLFW window, you might need to download the latest drivers or change the OpenGL version to 3\n"
MsgGlew == "Failed to initialize glew\n"

Widths == {0, 800}
Heights == {600}
Titles == {"GameTutorials"}
Events == {"press", "release", "close"}

DefaultHints ==
  [GLFW_SAMPLES |-> 0, GLFW_CONTEXT_VERSION_MAJOR |-> 1,
   GLFW_CONTEXT_VERSION_MINOR |-> 0, GLFW_OPENGL_PROFILE |-> 0]

\* One logged library call: its name, its string argument (hint name or
\* title), its integer arguments, the window or monitor handle passed, and
\* the value it returned.
Call(c, n, x, y, w, r) ==
  [call |-> c, name |-> n, a |-> x, b |-> y, win |-> w, res |-> r]

B2I(b) == IF b THEN 1 ELSE 0

----------------------------------------------------------------------------
(* The GLFW library, as the wrapper uses it.  L is the library state:      *)
(*   inited   glfwInit has succeeded and glfwTerminate has not run since   *)
(*   windows  the live windows, handle -> window state                     *)
(*   hints    the hints the next glfwCreateWindow uses                     *)
(*   current  the window whose context is current, or NULL                 *)
(*   queue    OS events not yet delivered by glfwPollEvents                *)
(*   nextId   the next handle glfwCreateWindow hands out                   *)
(* Every call on a library that is not initialized does nothing and        *)
(* returns its zero value (GLFW_NOT_INITIALIZED).                          *)

Live(L) == DOMAIN L.windows

glfwTerminate(L) ==
  IF ~L.inited THEN L
  ELSE [L EXCEPT !.inited = FALSE, !.windows = <<>>, !.hints = DefaultHints,
                 !.current = NULL, !.queue = <<>>]

\* ok: whether the platform lets the library start.  An initialized library
\* returns GLFW_TRUE at once; a failed start leaves it terminated.
glfwInit(L, ok) ==
  IF L.inited THEN [lib |-> L, res |-> 1]
  ELSE IF ok THEN [lib |-> [L EXCEPT !.inited = TRUE, !.hints = DefaultHints],
                   res |-> 1]
  ELSE [lib |-> L, res |-> 0]

glfwWindowHint(L, hint, value) ==
  IF ~L.inited THEN L ELSE [L EXCEPT !.hints[hint] = value]

\* ok: whether the platform can make a window and context with the hints.
\* A window keeps the hints it was made with, the key state of Escape, its
\* close flag, its sticky-keys mode and which of its two buffers is in front.
glfwCreateWindow(L, width, height, title, monitor, ok) ==
  IF ~L.inited \/ width <= 0 \/ height <= 0 \/ ~ok
  THEN [lib |-> L, res |-> NULL]
  ELSE LET id == L.nextId
           w  == [shouldClose |-> FALSE, key |-> "RELEASE", sticky |-> FALSE,
                  hints |-> L.hints, front |-> 0]
       IN [lib |-> [L EXCEPT !.windows = (id :> w) @@ L.windows,
                             !.nextId = id + 1],
           res |-> id]

glfwMakeContextCurrent(L, w) ==
  IF L.inited /\ (w = NULL \/ w \in Live(L)) THEN [L EXCEPT !.current = w]
  ELSE L

glfwSetInputMode(L, w, value) ==
  IF L.inited /\ w \in Live(L) THEN [L EXCEPT !.windows[w].sticky = value]
  ELSE L

glfwSwapBuffers(L, w) ==
  IF L.inited /\ w \in Live(L)
  THEN [L EXCEPT !.windows[w].front = 1 - L.windows[w].front]
  ELSE L

\* A key released while sticky keys are on reads as pressed once.
glfwGetKey(L, w) ==
  IF ~(L.inited /\ w \in Live(L)) THEN [lib |-> L, res |-> 0]
  ELSE IF L.windows[w].key = "STICK"
       THEN [lib |-> [L EXCEPT !.windows[w].key = "RELEASE"],
             res |-> GLFW_PRESS]
  ELSE [lib |-> L, res |-> IF L.windows[w].key = "PRESS" THEN GLFW_PRESS ELSE 0]

glfwWindowShouldClose(L, w) ==
  IF L.inited /\ w \in Live(L) THEN B2I(L.windows[w].shouldClose) ELSE 0

\* The effect of one delivered event on its window.
Deliver(win, ev) ==
  CASE ev = "close"   -> [win EXCEPT !.shouldClose = TRUE]
    [] ev = "press"   -> [win EXCEPT !.key = "PRESS"]
    [] ev = "release" -> IF win.key = "RELEASE" THEN win
                         ELSE IF win.sticky THEN [win EXCEPT !.key = "STICK"]
                         ELSE [win EXCEPT !.key = "RELEASE"]

RECURSIVE DeliverAll(_, _)
DeliverAll(ws, q) ==
  IF q = <<>> THEN ws
  ELSE LET e == Head(q)
       IN DeliverAll(IF e.w \in DOMAIN ws
                     THEN [ws EXCEPT ![e.w] = Deliver(ws[e.w], e.ev)]
                     ELSE ws,
                     Tail(q))

glfwPollEvents(L) ==
  IF ~L.inited THEN L
  ELSE [L EXCEPT !.windows = DeliverAll(L.windows, L.queue), !.queue = <<>>]

\* ok: whether the function loader finds the OpenGL entry points; it needs a
\* current context.
glewInit(L, ok) ==
  IF L.inited /\ L.current # NULL /\ ok THEN GLEW_OK ELSE GLEW_ERROR

----------------------------------------------------------------------------
(* The program *)

Init ==
  /\ Window \in {NULL, Indeterminate}
  /\ glewExperimental = FALSE
  /\ glfw = [inited |-> FALSE, windows |-> <<>>, hints |-> DefaultHints,
             current |-> NULL, queue |-> <<>>, nextId |-> 1]
  /\ stderr = <<>>
  /\ lastOp = "none"
  /\ args = <<>>
  /\ ret = 0
  /\ trace = <<>>

\* Mutation: Destroy destroys the stored window and leaves the library running.
DestroyLib_WindowOnly(L) ==
  IF ~L.inited THEN L
  ELSE [L EXCEPT !.windows = <<>>, !.current = NULL]

\* WindowManager::Destroy: what it does to the library, and the calls it makes.
DestroyLib(L) == glfwTerminate(L)

DestroyTrace == <<Call("glfwTerminate", "", 0, 0, NULL, 0)>>

Destroy ==
  /\ lastOp' = "Destroy"
  /\ args' = <<>>
  /\ glfw' = DestroyLib(glfw)
  /\ ret' = 0
  /\ trace' = DestroyTrace
  /\ UNCHANGED <<Window, glewExperimental, stderr>>

\* The three ways Initialize gives up, and its success.  st is what the call
\* has done so far: the handle, the library state, the calls logged.
InitFailed(st) ==
  [st EXCEPT !.err = <<MsgInit>>, !.ret = -1]

\* Mutation: the window failure path returns without calling Destroy.
WindowFailed_NoDestroy(st) ==
  [st EXCEPT !.err = <<MsgWindow>>, !.ret = -1]

\* Mutation: the window failure path returns 0.
WindowFailed_ReturnsZero(st) ==
  [st EXCEPT !.err = <<MsgWindow>>,
             !.lib = DestroyLib(st.lib),
             !.trace = st.trace \o DestroyTrace,
             !.ret = 0]

WindowFailed(st) ==
  [st EXCEPT !.err = <<MsgWindow>>,
             !.lib = DestroyLib(st.lib),
             !.trace = st.trace \o DestroyTrace,
             !.ret = -1]

\* Mutation: the loader failure path writes no diagnostic.
GlewFailed_Silent(st) ==
  [st EXCEPT !.ret = -1]

GlewFailed(st) ==
  [st EXCEPT !.err = <<MsgGlew>>, !.ret = -1]

Succeeded(st) ==
  [st EXCEPT !.ret = 0]

\* Lines 57-66: the hints, the same for every call.
SetHints(L) ==
  glfwWindowHint(
    glfwWindowHint(
      glfwWindowHint(
        glfwWindowHint(L, "GLFW_SAMPLES", 4),
        "GLFW_CONTEXT_VERSION_MAJOR", 4),
      "GLFW_CONTEXT_VERSION_MINOR", 4),
    "GLFW_OPENGL_PROFILE", GLFW_OPENGL_CORE_PROFILE)

HintTrace ==
  << Call("glfwWindowHint", "GLFW_SAMPLES", 4, 0, NULL, 0),
     Call("glfwWindowHint", "GLFW_CONTEXT_VERSION_MAJOR", 4, 0, NULL, 0),
     Call("glfwWindowHint", "GLFW_CONTEXT_VERSION_MINOR", 4, 0, NULL, 0),
     Call("glfwWindowHint", "GLFW_OPENGL_PROFILE", GLFW_OPENGL_CORE_PROFILE,
          0, NULL, 0) >>

\* Mutation: the branches of the fullscreen test are swapped.
MonitorArg_Swapped(bFullScreen) == IF bFullScreen THEN NULL ELSE PrimaryMonitor

\* Lines 71-74: the monitor passed to glfwCreateWindow.
MonitorArg(bFullScreen) == IF bFullScreen THEN PrimaryMonitor ELSE NULL

\* Lines 88-107: the steps on a window that was created.
SetUpContext(st, glewOk) ==
  LET L1 == glfwMakeContextCurrent(st.lib, st.Window)
      L2 == glfwSetInputMode(L1, st.Window, TRUE)
      err == glewInit(L2, glewOk)
  IN [st EXCEPT !.lib = L2,
                !.glewExperimental = TRUE,
                !.trace = st.trace \o
                  << Call("glfwMakeContextCurrent", "", 0, 0, st.Window, 0),
                     Call("glfwSetInputMode", "GLFW_STICKY_KEYS", 1, 0,
                          st.Window, 0),
                     Call("glewInit", "", 0, 0, NULL, err) >>,
                !.ret = err]

\* WindowManager::Initialize as a function of the state it starts in, its
\* arguments and what the platform answers (initOk, winOk, glewOk).
InitializeRun(W, gE, L, width, height, strTitle, bFullScreen, initOk, winOk, glewOk) ==
  LET i  == glfwInit(L, initOk)
      s0 == [Window |-> W, glewExperimental |-> gE, lib |-> i.lib,
             err |-> <<>>, ret |-> 0,
             trace |-> <<Call("glfwInit", "", 0, 0, NULL, i.res)>>]
  IN IF i.res = 0 THEN InitFailed(s0)
     ELSE LET mon == MonitorArg(bFullScreen)
              c  == glfwCreateWindow(SetHints(s0.lib), width, height,
                                     strTitle, mon, winOk)
              s1 == [s0 EXCEPT
                       !.Window = c.res,
                       !.lib = c.lib,
                       !.trace = s0.trace \o HintTrace \o
                         <<Call("glfwCreateWindow", strTitle, width, height,
                                mon, c.res)>>]
          IN IF s1.Window = NULL THEN WindowFailed(s1)
             ELSE LET s2 == SetUpContext(s1, glewOk)
                  IN IF GLEW_OK # s2.ret THEN GlewFailed(s2)
                     ELSE Succeeded(s2)

Initialize(width, height, strTitle, bFullScreen) ==
  /\ (glfw.nextId - 1) + Len(stderr) < MaxInit
  /\ lastOp' = "Initialize"
  /\ args' = <<width, height, strTitle, bFullScreen>>
  /\ \E initFails, winFails, glewFails \in BOOLEAN :
       LET r == InitializeRun(Window, glewExperimental, glfw, width, height,
                              strTitle, bFullScreen,
                              ~initFails, ~winFails, ~glewFails)
       IN /\ Window' = r.Window
          /\ glewExperimental' = r.glewExperimental
          /\ glfw' = r.lib
          /\ stderr' = stderr \o r.err
          /\ ret' = r.ret
          /\ trace' = r.trace

SwapBuffers ==
  /\ lastOp' = "SwapBuffers"
  /\ args' = <<>>
  /\ glfw' = glfwSwapBuffers(glfw, Window)
  /\ ret' = 0
  /\ trace' = <<Call("glfwSwapBuffers", "", 0, 0, Window, 0)>>
  /\ UNCHANGED <<Window, glewExperimental, stderr>>

\* Mutation: ProcessInput polls before it checks for exit.
ProcessInputRun_PollFirst(W, L, continueGame) ==
  LET p  == glfwPollEvents(L)
      tp == <<Call("glfwPollEvents", "", 0, 0, NULL, 0)>>
      k  == glfwGetKey(p, W)
      tk == tp \o <<Call("glfwGetKey", "GLFW_KEY_ESCAPE", 0, 0, W, k.res)>>
      sc == glfwWindowShouldClose(k.lib, W)
      ts == tk \o <<Call("glfwWindowShouldClose", "", 0, 0, W, sc)>>
  IN IF k.res = GLFW_PRESS
     THEN [lib |-> k.lib, ret |-> FALSE, trace |-> tk]
     ELSE IF sc # 0
     THEN [lib |-> k.lib, ret |-> FALSE, trace |-> ts]
     ELSE [lib |-> k.lib, ret |-> continueGame, trace |-> ts]

\* Mutation: ProcessInput checks the key only, not the close flag.
ProcessInputRun_KeyOnly(W, L, continueGame) ==
  LET k  == glfwGetKey(L, W)
      tk == <<Call("glfwGetKey", "GLFW_KEY_ESCAPE", 0, 0, W, k.res)>>
  IN IF k.res = GLFW_PRESS
     THEN [lib |-> k.lib, ret |-> FALSE, trace |-> tk]
     ELSE [lib |-> glfwPollEvents(k.lib), ret |-> continueGame,
           trace |-> tk \o <<Call("glfwPollEvents", "", 0, 0, NULL, 0)>>]

\* Mutation: ProcessInput returns true where it should return its argument.
ProcessInputRun_ReturnsTrue(W, L, continueGame) ==
  LET k  == glfwGetKey(L, W)
      tk == <<Call("glfwGetKey", "GLFW_KEY_ESCAPE", 0, 0, W, k.res)>>
      sc == glfwWindowShouldClose(k.lib, W)
      ts == tk \o <<Call("glfwWindowShouldClose", "", 0, 0, W, sc)>>
  IN IF k.res = GLFW_PRESS
     THEN [lib |-> k.lib, ret |-> FALSE, trace |-> tk]
     ELSE IF sc # 0
     THEN [lib |-> k.lib, ret |-> FALSE, trace |-> ts]
     ELSE [lib |-> glfwPollEvents(k.lib), ret |-> TRUE,
           trace |-> ts \o <<Call("glfwPollEvents", "", 0, 0, NULL, 0)>>]

\* WindowManager::ProcessInput as a function of the handle, the library
\* state and its argument.  The || at line 137 does not call
\* glfwWindowShouldClose when the key reads as pressed.
ProcessInputRun(W, L, continueGame) ==
  LET k  == glfwGetKey(L, W)
      tk == <<Call("glfwGetKey", "GLFW_KEY_ESCAPE", 0, 0, W, k.res)>>
      sc == glfwWindowShouldClose(k.lib, W)
      ts == tk \o <<Call("glfwWindowShouldClose", "", 0, 0, W, sc)>>
  IN IF k.res = GLFW_PRESS
     THEN [lib |-> k.lib, ret |-> FALSE, trace |-> tk]
     ELSE IF sc # 0
     THEN [lib |-> k.lib, ret |-> FALSE, trace |-> ts]
     ELSE [lib |-> glfwPollEvents(k.lib), ret |-> continueGame,
           trace |-> ts \o <<Call("glfwPollEvents", "", 0, 0, NULL, 0)>>]

ProcessInput(continueGame) ==
  LET r == ProcessInputRun(Window, glfw, continueGame)
  IN /\ lastOp' = "ProcessInput"
     /\ args' = <<continueGame>>
     /\ glfw' = r.lib
     /\ ret' = r.ret
     /\ trace' = r.trace
     /\ UNCHANGED <<Window, glewExperimental, stderr>>

\* The window the user's input goes to: the one created last.
Focus(L) == CHOOSE w \in Live(L) : \A v \in Live(L) : v <= w

\* The user presses or releases Escape in the focused window, or asks to
\* close it: the event waits in the queue until glfwPollEvents delivers it.
UserEvent(ev) ==
  /\ glfw.inited
  /\ Live(glfw) # {}
  /\ Len(glfw.queue) < MaxQueue
  /\ glfw' = [glfw EXCEPT
               !.queue = Append(glfw.queue, [w |-> Focus(glfw), ev |-> ev])]
  /\ UNCHANGED <<Window, glewExperimental, stderr, lastOp, args, ret, trace>>

Next ==
  \/ \E width \in Widths, height \in Heights, strTitle \in Titles,
        bFullScreen \in BOOLEAN :
       Initialize(width, height, strTitle, bFullScreen)
  \/ SwapBuffers
  \/ \E continueGame \in BOOLEAN : ProcessInput(continueGame)
  \/ Destroy
  \/ \E ev \in Events : UserEvent(ev)

Spec == Init /\ [][Next]_vars

TypeOK ==
  /\ Window \in {NULL, Indeterminate} \cup (1..MaxInit)
  /\ glewExperimental \in BOOLEAN
  /\ glfw.inited \in BOOLEAN
  /\ Live(glfw) \subseteq 1..MaxInit
  /\ Len(glfw.queue) <= MaxQueue
  /\ Len(stderr) <= MaxInit + 1

----------------------------------------------------------------------------
(* Vocabulary of the properties *)

\* The library call named c was made by the last operation.
Logged(c) == \E i \in DOMAIN trace : trace[i].call = c

\* ... and returned r.
Returned(c, r) == \E i \in DOMAIN trace : trace[i].call = c /\ trace[i].res = r

\* The stored handle is a live window of an initialized library.
HandleValid == glfw.inited /\ Window \in Live(glfw)

\* Escape reads as pressed on the stored handle: held down, or pressed and
\* released since it was last read (sticky keys).
EscapeDelivered == HandleValid /\ glfw.windows[Window].key \in {"PRESS", "STICK"}

\* The close flag of the stored handle's window is set.
CloseRequested == HandleValid /\ glfw.windows[Window].shouldClose

ExitDelivered == EscapeDelivered \/ CloseRequested

\* An Escape press or a close request for the stored handle's window waits
\* in the event queue.
ExitPending ==
  /\ HandleValid
  /\ \E i \in DOMAIN glfw.queue :
       glfw.queue[i].w = Window /\ glfw.queue[i].ev \in {"press", "close"}

InitializeStep ==
  \E width \in Widths, height \in Heights, strTitle \in Titles,
     bFullScreen \in BOOLEAN :
    Initialize(width, height, strTitle, bFullScreen)

ProcessInputStep == \E continueGame \in BOOLEAN : ProcessInput(continueGame)

\* A step in which WindowManager::Destroy runs: called directly, or by
\* Initialize at line 80.
DestroyStep == Destroy \/ (InitializeStep /\ Logged("glfwTerminate")')

----------------------------------------------------------------------------
(* Properties *)

\* C1: Initialize returns a negative code whenever glfwInit fails or the
\* window cannot be created, and returns 0 when glfwInit, glfwCreateWindow
\* and glewInit all succeed, whatever width, height, title and fullscreen
\* flag it was called with.
C1_InitializeReturnCode ==
  lastOp = "Initialize" =>
    /\ (Returned("glfwInit", 0) \/ Returned("glfwCreateWindow", NULL)
        \/ ~Logged("glfwCreateWindow"))
         => ret < 0
    /\ (/\ Returned("glfwInit", 1)
        /\ Logged("glfwCreateWindow") /\ ~Returned("glfwCreateWindow", NULL)
        /\ Returned("glewInit", GLEW_OK))
         => ret = 0

\* A fullscreen Initialize with a valid size that the platform refused a
\* window to.
C1_Witness ==
  /\ lastOp = "Initialize"
  /\ args[1] > 0 /\ args[4]
  /\ Returned("glfwCreateWindow", NULL)
  /\ ret < 0

\* C2: ProcessInput returns false whenever Escape reads as pressed or the close
\* flag is set when it is called, for either value of continueGame, and
\* returns continueGame itself when neither is the case.
C2_ProcessInputResult ==
  [][\A continueGame \in BOOLEAN :
       ProcessInput(continueGame) =>
         ret' = (IF ExitDelivered THEN FALSE ELSE continueGame)]_vars

\* ProcessInput(true) answered false on a window whose close flag is set.
C2_Witness ==
  /\ lastOp = "ProcessInput"
  /\ args[1] = TRUE
  /\ ret = FALSE
  /\ CloseRequested

\* C5: after Destroy returns no window is live and the library is not
\* initialized, also when Destroy ran on a failed Initialize (line 80) or on
\* a library that was already terminated.
C5_DestroyReleases ==
  (lastOp = "Destroy" \/ (lastOp = "Initialize" /\ Logged("glfwTerminate")))
    => (Live(glfw) = {} /\ ~glfw.inited /\ glfw.current = NULL)

\* Destroy ran after a window had been created: the stored handle still
\* names it.
C5_Witness ==
  /\ lastOp = "Destroy"
  /\ Window >= 1
  /\ Live(glfw) = {}

\* C9: whenever Initialize returns a failure code, no window is live and the
\* library is terminated.
C9_FailureReleasesAll ==
  (lastOp = "Initialize" /\ ret < 0) => (Live(glfw) = {} /\ ~glfw.inited)

\* C10: the stored handle never names a destroyed window, and at most one
\* window is live.
C10_NoDanglingNoLeak ==
  /\ Window \in 1..(glfw.nextId - 1) => Window \in Live(glfw)
  /\ Cardinality(Live(glfw)) <= 1

\* C3 as claimed: events are polled before the exit check, so an Escape
\* press or close request waiting in the queue when ProcessInput is called
\* makes that same call return false.
C3_PollThenCheck ==
  [][\A continueGame \in BOOLEAN :
       (ExitPending /\ ProcessInput(continueGame)) => ret' = FALSE]_vars

\* C3 as amended: the exit check comes first and reads only what earlier
\* polls delivered; the poll comes after it and only when no exit was found.
\* A call that finds no exit delivered returns continueGame even though an
\* exit event is waiting, hands the waiting events to their windows, and
\* leaves the exit delivered; it stays delivered over SwapBuffers and user
\* input, and the ProcessInput call that reads it returns false.
C3_CheckThenPoll ==
  [][/\ \A continueGame \in BOOLEAN :
          ProcessInput(continueGame) =>
            /\ (~ExitDelivered /\ ExitPending) =>
                 /\ ret' = continueGame
                 /\ glfw'.queue = <<>>
                 /\ ExitDelivered'
            /\ ~ExitDelivered =>
                 /\ trace'[Len(trace')].call = "glfwPollEvents"
                 /\ \A i \in 1..(Len(trace') - 1) :
                      trace'[i].call \in {"glfwGetKey", "glfwWindowShouldClose"}
            /\ ExitDelivered =>
                 /\ ret' = FALSE
                 /\ ~Logged("glfwPollEvents")'
                 /\ glfw'.queue = glfw.queue
     /\ (ExitDelivered /\ (SwapBuffers \/ \E ev \in Events : UserEvent(ev)))
          => ExitDelivered'
    ]_vars

\* ProcessInput(true) returned true and its poll delivered an exit that was
\* waiting in the queue.
C3_Witness ==
  /\ lastOp = "ProcessInput"
  /\ args[1] = TRUE
  /\ ret = TRUE
  /\ Logged("glfwPollEvents")
  /\ ExitDelivered

\* C4: from a successful Initialize until Destroy next runs, the stored handle
\* names a live window of an initialized library; a window appears only in
\* an Initialize step and disappears only in a step in which Destroy runs.
C4_HandleValidUntilDestroy ==
  /\ []((lastOp = "Initialize" /\ ret = 0) => HandleValid)
  /\ [][/\ (HandleValid /\ ~DestroyStep) => HandleValid'
        /\ ~(Live(glfw') \subseteq Live(glfw)) => InitializeStep
        /\ ~(Live(glfw) \subseteq Live(glfw')) => DestroyStep
       ]_vars

\* A second Initialize succeeded while the first window was live: the handle
\* names the new window.
C4_Witness ==
  /\ lastOp = "Initialize"
  /\ ret = 0
  /\ HandleValid
  /\ Cardinality(Live(glfw)) = 2

\* C6: an Initialize that fails writes exactly one diagnostic to standard
\* error, the one of the step that failed, and returns a negative code; the
\* failed step is not tried again and no later step of Initialize runs after
\* it; an Initialize that succeeds writes nothing.
C6_OneDiagnosticPerFailure ==
  [][InitializeStep =>
       LET n == Len(trace')
           last == trace'[n]
           tried(c) == Cardinality({i \in 1..n : trace'[i].call = c})
       IN /\ tried("glfwInit") = 1
          /\ tried("glfwCreateWindow") <= 1
          /\ tried("glewInit") <= 1
          /\ Returned("glfwInit", 0)' =>
               /\ stderr' = Append(stderr, MsgInit)
               /\ ret' < 0
               /\ n = 1
          /\ Returned("glfwCreateWindow", NULL)' =>
               /\ stderr' = Append(stderr, MsgWindow)
               /\ ret' < 0
               /\ ~Logged("glfwMakeContextCurrent")'
               /\ ~Logged("glfwSetInputMode")'
               /\ ~Logged("glewInit")'
          /\ Returned("glewInit", GLEW_ERROR)' =>
               /\ stderr' = Append(stderr, MsgGlew)
               /\ ret' < 0
               /\ last.call = "glewInit"
          /\ ret' # 0 =>
               \/ Returned("glfwInit", 0)'
               \/ Returned("glfwCreateWindow", NULL)'
               \/ Returned("glewInit", GLEW_ERROR)'
          /\ ret' = 0 => stderr' = stderr
    ]_vars

\* The function loader failed after an earlier failure had been reported:
\* standard error holds two diagnostics, the last one the loader's.
C6_Witness ==
  /\ lastOp = "Initialize"
  /\ ret < 0
  /\ Returned("glewInit", GLEW_ERROR)
  /\ Len(stderr) = 2
  /\ stderr[2] = MsgGlew

\* C7: once the close flag of the stored handle's window is set, every
\* ProcessInput call returns false for either argument and does not poll,
\* and the flag stays set over any SwapBuffers and ProcessInput calls.
C7_CloseRequestSticks ==
  [][CloseRequested =>
       /\ \A continueGame \in BOOLEAN :
            ProcessInput(continueGame) =>
              /\ ret' = FALSE
              /\ ~Logged("glfwPollEvents")'
              /\ glfw'.queue = glfw.queue
       /\ (SwapBuffers \/ ProcessInputStep) => CloseRequested'
    ]_vars

\* ProcessInput(true) returned false without polling, on a window whose
\* close flag is set, with an event still waiting in the queue.
C7_Witness ==
  /\ lastOp = "ProcessInput"
  /\ args[1] = TRUE
  /\ ret = FALSE
  /\ CloseRequested
  /\ ~EscapeDelivered
  /\ ~Logged("glfwPollEvents")
  /\ glfw.queue # <<>>

\* C8: Initialize makes its library calls in a fixed order: glfwInit; the four
\* hints (4 samples, version 4.4, core profile) whatever the arguments;
\* glfwCreateWindow with its own width, height and title and the primary
\* monitor exactly when bFullScreen; glfwMakeContextCurrent and sticky keys
\* on the new window; glewInit.  Nothing follows a failed glfwInit, only
\* Destroy follows a failed glfwCreateWindow, and the context is never made
\* current on a null window.
C8_FixedOrder ==
  lastOp = "Initialize" =>
    LET n == Len(trace)
    IN /\ n >= 1
       /\ trace[1].call = "glfwInit"
       /\ trace[1].res = 0 => n = 1
       /\ trace[1].res # 0 =>
            /\ n >= 6
            /\ \A i \in 2..5 : trace[i].call = "glfwWindowHint"
            /\ trace[2].name = "GLFW_SAMPLES" /\ trace[2].a = 4
            /\ trace[3].name = "GLFW_CONTEXT_VERSION_MAJOR" /\ trace[3].a = 4
            /\ trace[4].name = "GLFW_CONTEXT_VERSION_MINOR" /\ trace[4].a = 4
            /\ trace[5].name = "GLFW_OPENGL_PROFILE"
            /\ trace[5].a = GLFW_OPENGL_CORE_PROFILE
            /\ trace[6].call = "glfwCreateWindow"
            /\ trace[6].a = args[1] /\ trace[6].b = args[2]
            /\ trace[6].name = args[3]
            /\ (trace[6].win = PrimaryMonitor) <=> args[4]
            /\ (trace[6].win = NULL) <=> ~args[4]
            /\ trace[6].res = NULL =>
                 n = 7 /\ trace[7].call = "glfwTerminate"
            /\ trace[6].res # NULL =>
                 /\ n = 9
                 /\ trace[7].call = "glfwMakeContextCurrent"
                 /\ trace[7].win = trace[6].res
                 /\ trace[8].call = "glfwSetInputMode"
                 /\ trace[8].name = "GLFW_STICKY_KEYS"
                 /\ trace[8].win = trace[6].res
                 /\ trace[9].call = "glewInit"
                 /\ glfw.windows[Window].hints =
                      [GLFW_SAMPLES |-> 4, GLFW_CONTEXT_VERSION_MAJOR |-> 4,
                       GLFW_CONTEXT_VERSION_MINOR |-> 4,
                       GLFW_OPENGL_PROFILE |-> GLFW_OPENGL_CORE_PROFILE]
                 /\ glfw.windows[Window].sticky
                 /\ glfw.current = Window
       /\ \A i \in 1..n :
            trace[i].call = "glfwMakeContextCurrent" => trace[i].win # NULL

\* A fullscreen Initialize that went through every step.
C8_Witness ==
  /\ lastOp = "Initialize"
  /\ args[4]
  /\ Len(trace) = 9
  /\ trace[6].win = PrimaryMonitor
  /\ ret = 0

====
